---------------------------- MODULE Spec2Model ----------------------------
(***************************************************************************)
(* FF_LED: one LED channel driven through three effects (fixed, blink,     *)
(* pulse) by a cooperative polling loop.  The model follows FF_LED.h and   *)
(* FF_LED.cpp field by field and method by method.                         *)
(*                                                                         *)
(* unsigned long is 32 bits wide on the Arduino targets.  A 32-bit value   *)
(* is written here as the pair <<hi, lo>> of its two 16-bit halves, so     *)
(* that the arithmetic modulo 2^32 is exact.                               *)
(***************************************************************************)
EXTENDS Integers, Sequences, FiniteSets

(***************************************************************************)
(* Bounds of the model                                                     *)
(***************************************************************************)
\* largest _blinkCount given to setBlink
MaxBlinks == 2
\* the general clock advances in steps of 2^(32 - ClockBits) ms, so that it
\* runs through 2^ClockBits values and wraps
ClockBits == 1
\* number of most recent commits (calls of setLed) remembered in commits
LogLen == 8
\* ledBlinksDone is not incremented further than this (it is a uint8_t that
\* runs away when minLevel = maxLevel)
MaxDone == 3
\* number of 10 ms polls in the timed scenarios
MaxPolls == 230

\* loop() calls made in a run of the due-test scenario
MaxCalls == 3

(***************************************************************************)
(* 32-bit unsigned arithmetic (unsigned long)                              *)
(***************************************************************************)
Half == 2^16

U32Add(a, b) ==
    LET lo == a[2] + b[2]
        hi == a[1] + b[1] + (lo \div Half)
    IN  <<hi % Half, lo % Half>>

U32Sub(a, b) ==
    LET lo == a[2] - b[2]
        hi == a[1] - b[1] - (IF lo < 0 THEN 1 ELSE 0)
    IN  <<hi % Half, lo % Half>>

U32Gt(a, b) == a[1] > b[1] \/ (a[1] = b[1] /\ a[2] > b[2])

\* n milliseconds, n < 2^16
Ms(n) == <<0, n>>

FF_LED_WAIT_FOR_EVER == <<Half - 1, Half - 1>>

\* (uint8_t) x
CastU8(x) == x % 256

(***************************************************************************)
(* Inputs                                                                  *)
(***************************************************************************)
ClockStep == <<2^(16 - ClockBits), 0>>

\* <<_onTime, _offTime, _waitTime>> or <<_upTime, _downTime, _waitTime>>:
\* three different durations, the first of them 0, and two equal ones with
\* a wait that never ends
Timings == {<<Ms(0), Ms(20), Ms(1000)>>,
            <<Ms(20), Ms(20), FF_LED_WAIT_FOR_EVER>>}

\* _level of setFixed and _initialLevel of the constructor
Levels == {0, 128, 255}

\* <<_minLevel, _maxLevel>>: the defaults, two short ranges at either end of
\* the uint8_t range, an empty-span range and one with minLevel > maxLevel
LevelPairs == {<<0, 255>>, <<0, 2>>, <<253, 255>>, <<1, 1>>, <<2, 1>>}

\* pulse sweeps are kept short
PulsePairs == {p \in LevelPairs : p[2] - p[1] <= 2}

BlinkCounts == 0..MaxBlinks

(***************************************************************************)
(* State                                                                   *)
(***************************************************************************)
VARIABLES
    ledReverted,        \* bool
    ledBlinksNeeded,    \* uint8_t
    ledBlinksDone,      \* uint8_t
    ledMinLevel,        \* uint8_t
    ledMaxLevel,        \* uint8_t
    ledLevel,           \* uint8_t
    ledIncrease,        \* bool
    ledPulseIncrement,  \* int8_t
    ledMode,            \* "fixed", "blink", "pulse"
    ledOnDelay,         \* unsigned long
    ledOffDelay,        \* unsigned long
    ledWaitDelay,       \* unsigned long
    ledDelay,           \* unsigned long
    ledLastTimeChanged, \* unsigned long
    now,                \* millis()
    pinWrite,           \* the last hardware write: [fn, val]
    pinIsOutput,        \* pinMode(ledPin, OUTPUT) was made by begin()
    commits,            \* the last LogLen calls of setLed since the last
                        \* begin()/set* call: [level, delay, arg, inc]
    dropped,            \* commits has lost its oldest entries
    call,               \* the last call made on the object
    polls               \* 10 ms polls made (timed scenarios)

ledFields == <<ledReverted, ledBlinksNeeded, ledBlinksDone, ledMinLevel,
               ledMaxLevel, ledLevel, ledIncrease, ledPulseIncrement, ledMode,
               ledOnDelay, ledOffDelay, ledWaitDelay, ledDelay,
               ledLastTimeChanged>>

vars == <<ledFields, now, pinWrite, pinIsOutput, commits, dropped, call, polls>>

(***************************************************************************)
(* FF_LED::FF_LED, with the default member initialisers of FF_LED.h        *)
(***************************************************************************)
Boot(t) ==
    /\ ledReverted \in BOOLEAN
    /\ ledLevel \in Levels
    /\ ledMode = "fixed"
    /\ ledBlinksNeeded = 0
    /\ ledBlinksDone = 0
    /\ ledMinLevel = 0
    /\ ledMaxLevel = 255
    /\ ledIncrease = FALSE
    /\ ledPulseIncrement = 0
    /\ ledOnDelay = Ms(0)
    /\ ledOffDelay = Ms(0)
    /\ ledWaitDelay = Ms(0)
    /\ ledDelay = Ms(0)
    /\ ledLastTimeChanged = Ms(0)
    /\ now = t
    /\ pinWrite = [fn |-> "none", val |-> 0]
    /\ pinIsOutput = FALSE
    /\ commits = <<>>
    /\ dropped = FALSE
    /\ call = "none"
    /\ polls = 0

\* the object is constructed at start-up
Init == Boot(Ms(0))

(***************************************************************************)
(* FF_LED::setLed                                                          *)
(***************************************************************************)
\* the pin level digitalWrite(pin, val) produces: LOW for 0, HIGH otherwise
DigitalPin(val) == IF val = 0 THEN "LOW" ELSE "HIGH"

\* the hardware write made for _level, with the ledMinLevel and ledMaxLevel
\* in force when setLed runs
HardwareWrite(_level, reverted, minLevel, maxLevel) ==
    IF _level = 0
    THEN [fn |-> "digitalWrite", val |-> IF reverted THEN maxLevel ELSE minLevel]
    ELSE IF _level = 255
    THEN [fn |-> "digitalWrite", val |-> IF reverted THEN minLevel ELSE maxLevel]
    ELSE [fn |-> "analogWrite", val |-> IF reverted THEN 255 - _level ELSE _level]

\* commits with one more entry, the oldest dropped beyond LogLen
Logged(log, e) ==
    IF Len(log) < LogLen THEN Append(log, e) ELSE Append(Tail(log), e)

\* the time of the change not saved: ledLastTimeChanged keeps its value
setLed_StaleTime(_level, _delay, arg, t, minLevel, maxLevel, inc, first) ==
    LET e == [level |-> _level, delay |-> _delay, arg |-> arg, inc |-> inc]
    IN  /\ ledLevel' = _level
        /\ ledDelay' = _delay
        /\ ledLastTimeChanged' = ledLastTimeChanged
        /\ pinWrite' = HardwareWrite(_level, ledReverted, minLevel, maxLevel)
        /\ commits' = IF first THEN <<e>> ELSE Logged(commits, e)
        /\ dropped' = IF first THEN FALSE ELSE (dropped \/ Len(commits) >= LogLen)

\* the next phase timed from the end of the previous one, not from millis()
setLed_Scheduled(_level, _delay, arg, t, minLevel, maxLevel, inc, first) ==
    LET e == [level |-> _level, delay |-> _delay, arg |-> arg, inc |-> inc]
    IN  /\ ledLevel' = _level
        /\ ledDelay' = _delay
        /\ ledLastTimeChanged' = IF first THEN t
                                  ELSE U32Add(ledLastTimeChanged, ledDelay)
        /\ pinWrite' = HardwareWrite(_level, ledReverted, minLevel, maxLevel)
        /\ commits' = IF first THEN <<e>> ELSE Logged(commits, e)
        /\ dropped' = IF first THEN FALSE ELSE (dropped \/ Len(commits) >= LogLen)

\* setLed(_level, _delay) at millis() = t.  arg names the member the caller
\* passed as _delay; minLevel, maxLevel and inc are the values of
\* ledMinLevel, ledMaxLevel and ledPulseIncrement when setLed runs; first
\* says that the caller is begin() or a set* method.
setLed(_level, _delay, arg, t, minLevel, maxLevel, inc, first) ==
    LET e == [level |-> _level, delay |-> _delay, arg |-> arg, inc |-> inc]
    IN  /\ ledLevel' = _level
        /\ ledDelay' = _delay
        /\ ledLastTimeChanged' = t
        /\ pinWrite' = HardwareWrite(_level, ledReverted, minLevel, maxLevel)
        /\ commits' = IF first THEN <<e>> ELSE Logged(commits, e)
        /\ dropped' = IF first THEN FALSE ELSE (dropped \/ Len(commits) >= LogLen)

(***************************************************************************)
(* FF_LED::begin                                                           *)
(***************************************************************************)
Begin ==
    /\ ~pinIsOutput
    /\ setLed(ledLevel, FF_LED_WAIT_FOR_EVER, "forever", now,
              ledMinLevel, ledMaxLevel, ledPulseIncrement, TRUE)
    /\ pinIsOutput' = TRUE
    /\ call' = "begin"
    /\ UNCHANGED <<ledReverted, ledBlinksNeeded, ledBlinksDone, ledMinLevel,
                   ledMaxLevel, ledIncrease, ledPulseIncrement, ledMode,
                   ledOnDelay, ledOffDelay, ledWaitDelay, now, polls>>

(***************************************************************************)
(* FF_LED::setFixed                                                        *)
(***************************************************************************)
\* ledMode = fixed forgotten: the previous effect stays selected
SetFixed_KeepsMode(_level) ==
    /\ pinIsOutput
    /\ ledMode' = ledMode
    /\ setLed(_level, FF_LED_WAIT_FOR_EVER, "forever", now,
              ledMinLevel, ledMaxLevel, ledPulseIncrement, TRUE)
    /\ call' = "setFixed"
    /\ UNCHANGED <<ledReverted, ledBlinksNeeded, ledBlinksDone, ledMinLevel,
                   ledMaxLevel, ledIncrease, ledPulseIncrement,
                   ledOnDelay, ledOffDelay, ledWaitDelay, now, pinIsOutput,
                   polls>>

SetFixed(_level) ==
    /\ pinIsOutput
    /\ ledMode' = "fixed"
    /\ setLed(_level, FF_LED_WAIT_FOR_EVER, "forever", now,
              ledMinLevel, ledMaxLevel, ledPulseIncrement, TRUE)
    /\ call' = "setFixed"
    /\ UNCHANGED <<ledReverted, ledBlinksNeeded, ledBlinksDone, ledMinLevel,
                   ledMaxLevel, ledIncrease, ledPulseIncrement,
                   ledOnDelay, ledOffDelay, ledWaitDelay, now, pinIsOutput,
                   polls>>

(***************************************************************************)
(* FF_LED::setBlink                                                        *)
(***************************************************************************)
SetBlink(_blinkCount, _onTime, _offTime, _waitTime, _minLevel, _maxLevel) ==
    /\ pinIsOutput
    /\ ledBlinksNeeded' = _blinkCount
    /\ ledOnDelay' = _onTime
    /\ ledOffDelay' = _offTime
    /\ ledWaitDelay' = _waitTime
    /\ ledMinLevel' = _minLevel
    /\ ledMaxLevel' = _maxLevel
    /\ ledBlinksDone' = 0
    /\ ledMode' = "blink"
    /\ IF _blinkCount # 0
       THEN setLed(_maxLevel, _onTime, "on", now,
                   _minLevel, _maxLevel, ledPulseIncrement, TRUE)
       ELSE setLed(_minLevel, _waitTime, "wait", now,
                   _minLevel, _maxLevel, ledPulseIncrement, TRUE)
    /\ call' = "setBlink"
    /\ UNCHANGED <<ledReverted, ledIncrease, ledPulseIncrement, now,
                   pinIsOutput, polls>>

(***************************************************************************)
(* FF_LED::setPulse                                                        *)
(***************************************************************************)
SetPulse(_increase, _upTime, _downTime, _waitTime, _minLevel, _maxLevel) ==
    /\ pinIsOutput
    /\ ledIncrease' = _increase
    /\ ledMinLevel' = _minLevel
    /\ ledMaxLevel' = _maxLevel
    /\ ledOnDelay' = _upTime
    /\ ledOffDelay' = _downTime
    /\ ledWaitDelay' = _waitTime
    /\ ledMode' = "pulse"
    /\ ledPulseIncrement' = IF _increase THEN 1 ELSE -1
    /\ IF _increase
       THEN setLed(_minLevel, _upTime, "on", now,
                   _minLevel, _maxLevel, 1, TRUE)
       ELSE setLed(_maxLevel, _downTime, "off", now,
                   _minLevel, _maxLevel, -1, TRUE)
    /\ call' = "setPulse"
    /\ UNCHANGED <<ledReverted, ledBlinksNeeded, ledBlinksDone, now,
                   pinIsOutput, polls>>

(***************************************************************************)
(* FF_LED::loop                                                            *)
(***************************************************************************)
\* >= written for >
Due_Inclusive(t, lastTimeChanged, delay) ==
    ~U32Gt(delay, U32Sub(t, lastTimeChanged))

\* millis() > ledLastTimeChanged + ledDelay written for the difference
Due_Deadline(t, lastTimeChanged, delay) ==
    U32Gt(t, U32Add(lastTimeChanged, delay))

\* (millis() - ledLastTimeChanged) > ledDelay, in unsigned long
Due(t, lastTimeChanged, delay) == U32Gt(U32Sub(t, lastTimeChanged), delay)

\* the fixed mode falling into the blink branch
InBlinkBranch_NotPulse(mode) == mode # "pulse"

\* if (ledMode == blink)
InBlinkBranch(mode) == mode = "blink"

\* else if (ledMode == pulse)
InPulseBranch(mode) == ~InBlinkBranch(mode) /\ mode = "pulse"

\* > written for ==
BlinkIsOn_Above(level, maxLevel) == level > maxLevel

\* if (ledLevel == ledMaxLevel): LED is on
BlinkIsOn(level, maxLevel) == level = maxLevel

\* the increment forgotten
BlinkCounted_Forgotten(done) == done

\* ledBlinksDone++
BlinkCounted(done) == CastU8(done + 1)

\* > written for >=
BlinksAllDone_Strict(done, needed) == done > needed

\* if (ledBlinksDone >= ledBlinksNeeded)
BlinksAllDone(done, needed) == done >= needed

\* >= written for >
Overshoot_Early(newLevel, maxLevel) == newLevel >= maxLevel

\* if (ledNewLevel > ledMaxLevel)
Overshoot(newLevel, maxLevel) == newLevel > maxLevel

\* the test made one level too late
Undershoot_Late(newLevel, minLevel) == newLevel < minLevel - 1

\* the new level held in a uint8_t: the test made after the narrowing
Undershoot_Narrow(newLevel, minLevel) == CastU8(newLevel) < minLevel

\* if (ledNewLevel < ledMinLevel)
Undershoot(newLevel, minLevel) == newLevel < minLevel

\* the two branches exchanged
ArgAtMax_Swapped(increase) == IF increase THEN "wait" ELSE "off"

\* the member armed when an ascent turns at ledMaxLevel
ArgAtMax(increase) == IF increase THEN "off" ELSE "wait"

\* the pause armed in both branches
ArgAtMin_Always(increase) == "wait"

\* the member armed when a descent turns at ledMinLevel
ArgAtMin(increase) == IF ~increase THEN "on" ELSE "wait"

\* the value of the member named arg
DelayOf(arg) ==
    CASE arg = "on" -> ledOnDelay
      [] arg = "off" -> ledOffDelay
      [] arg = "wait" -> ledWaitDelay

\* loop() at millis() = t finds nothing to do
LoopIdle(t) ==
    /\ \/ ~Due(t, ledLastTimeChanged, ledDelay)
       \/ (~InBlinkBranch(ledMode) /\ ~InPulseBranch(ledMode))
    /\ call' = "loopIdle"
    /\ UNCHANGED <<ledFields, pinWrite, pinIsOutput, commits, dropped>>

\* loop() at millis() = t, blink branch
LoopBlink(t) ==
    /\ Due(t, ledLastTimeChanged, ledDelay)
    /\ InBlinkBranch(ledMode)
    /\ IF BlinkIsOn(ledLevel, ledMaxLevel)
       THEN /\ ledBlinksDone < MaxDone
            /\ ledBlinksDone' = BlinkCounted(ledBlinksDone)
            /\ setLed(ledMinLevel, ledOffDelay, "off", t,
                      ledMinLevel, ledMaxLevel, ledPulseIncrement, FALSE)
       ELSE IF BlinksAllDone(ledBlinksDone, ledBlinksNeeded)
            THEN /\ ledBlinksDone' = 0
                 /\ setLed(ledMinLevel, ledWaitDelay, "wait", t,
                           ledMinLevel, ledMaxLevel, ledPulseIncrement, FALSE)
            ELSE /\ ledBlinksDone' = ledBlinksDone
                 /\ setLed(ledMaxLevel, ledOnDelay, "on", t,
                           ledMinLevel, ledMaxLevel, ledPulseIncrement, FALSE)
    /\ call' = "loopFire"
    /\ UNCHANGED <<ledReverted, ledBlinksNeeded, ledMinLevel, ledMaxLevel,
                   ledIncrease, ledPulseIncrement, ledMode, ledOnDelay,
                   ledOffDelay, ledWaitDelay, pinIsOutput>>

\* loop() at millis() = t, pulse branch
LoopPulse(t) ==
    LET ledNewLevel == ledLevel + ledPulseIncrement
    IN  /\ Due(t, ledLastTimeChanged, ledDelay)
        /\ InPulseBranch(ledMode)
        /\ IF ledPulseIncrement > 0
           THEN IF Overshoot(ledNewLevel, ledMaxLevel)
                THEN /\ ledPulseIncrement' = -1
                     /\ setLed(ledMaxLevel, DelayOf(ArgAtMax(ledIncrease)),
                               ArgAtMax(ledIncrease), t,
                               ledMinLevel, ledMaxLevel, -1, FALSE)
                ELSE /\ ledPulseIncrement' = ledPulseIncrement
                     /\ setLed(CastU8(ledNewLevel), ledOnDelay, "on", t,
                               ledMinLevel, ledMaxLevel, ledPulseIncrement, FALSE)
           ELSE IF Undershoot(ledNewLevel, ledMinLevel)
                THEN /\ ledPulseIncrement' = 1
                     /\ setLed(ledMinLevel, DelayOf(ArgAtMin(ledIncrease)),
                               ArgAtMin(ledIncrease), t,
                               ledMinLevel, ledMaxLevel, 1, FALSE)
                ELSE /\ ledPulseIncrement' = ledPulseIncrement
                     /\ setLed(CastU8(ledNewLevel), ledOffDelay, "off", t,
                               ledMinLevel, ledMaxLevel, ledPulseIncrement, FALSE)
        /\ call' = "loopFire"
        /\ UNCHANGED <<ledReverted, ledBlinksNeeded, ledBlinksDone, ledMinLevel,
                       ledMaxLevel, ledIncrease, ledMode, ledOnDelay,
                       ledOffDelay, ledWaitDelay, pinIsOutput>>

\* one call of loop() at millis() = t
LoopAt(t) == LoopIdle(t) \/ LoopBlink(t) \/ LoopPulse(t)

Loop ==
    /\ LoopAt(now)
    /\ UNCHANGED <<now, polls>>

(***************************************************************************)
(* millis(): the clock advances, modulo 2^32                               *)
(***************************************************************************)
Tick ==
    /\ now' = U32Add(now, ClockStep)
    /\ call' = "tick"
    /\ UNCHANGED <<ledFields, pinWrite, pinIsOutput, commits, dropped, polls>>

(***************************************************************************)
(* The sketch: begin() in setup(), then any interleaving of set* calls,    *)
(* loop() calls and clock advances                                         *)
(***************************************************************************)
Next ==
    \/ Begin
    \/ \E l \in Levels : SetFixed(l)
    \/ \E n \in BlinkCounts, d \in Timings, p \in LevelPairs :
          SetBlink(n, d[1], d[2], d[3], p[1], p[2])
    \/ \E inc \in BOOLEAN, d \in Timings, p \in PulsePairs :
          SetPulse(inc, d[1], d[2], d[3], p[1], p[2])
    \/ Loop
    \/ Tick

Spec == Init /\ [][Next]_vars

(***************************************************************************)
(* Timed scenarios: one set* call right after begin(), then loop() polled  *)
(* every 10 ms.  The object is constructed either at start-up or shortly   *)
(* before the millisecond clock wraps.                                     *)
(***************************************************************************)
BeforeWrap == U32Sub(Ms(0), Ms(1015))

InitTimed == \E t \in {Ms(0), BeforeWrap} : Boot(t)

\* the clock advances by 10 ms and loop() is called
Poll10 ==
    /\ polls < MaxPolls
    /\ call \notin {"none", "begin"}
    /\ now' = U32Add(now, Ms(10))
    /\ polls' = polls + 1
    /\ LoopAt(now')

StartBlink3 ==
    /\ call = "begin"
    /\ SetBlink(3, Ms(100), Ms(50), Ms(500), 0, 255)

\* setBlink(3, 100, 50, 500), loop() every 10 ms
NextBlink3 == Begin \/ StartBlink3 \/ Poll10

SpecBlink3 == InitTimed /\ [][NextBlink3]_vars

StartPulse10(_increase) ==
    /\ call = "begin"
    /\ SetPulse(_increase, Ms(20), Ms(20), Ms(1000), 0, 10)

\* setPulse(true or false, 20, 20, 1000, 0, 10), loop() every 10 ms
NextPulse10 == Begin \/ (\E inc \in BOOLEAN : StartPulse10(inc)) \/ Poll10

SpecPulse10 == InitTimed /\ [][NextPulse10]_vars

(***************************************************************************)
(* The due test: the object is constructed at any of several clock values, *)
(* one set* call arms a phase of some length, and each loop() call comes   *)
(* some time after a commit, across the wrap of the clock or not.          *)
(***************************************************************************)
DueStarts == {Ms(0), <<Half - 1, Half - 1>>, <<Half - 1, Half - 15>>,
              <<Half \div 2, 0>>, <<(Half \div 2) - 1, Half - 10>>,
              <<Half \div 2, 5>>}

\* armed delays, all below 2^31
DueDelays == {Ms(0), Ms(20), <<(Half \div 2) - 1, Half - 2>>}

\* times between a commit and the loop() call, all below 2^32
DueElapsed == {Ms(0), Ms(1), Ms(20), Ms(21), <<(Half \div 2) - 1, Half - 2>>,
               <<(Half \div 2) - 1, Half - 1>>, <<Half \div 2, 0>>,
               <<Half - 1, Half - 1>>}

InitDue == \E t \in DueStarts : Boot(t)

\* setBlink or setPulse with every duration d, right after begin()
StartDue(d) ==
    /\ call = "begin"
    /\ \/ SetBlink(1, d, d, d, 0, 255)
       \/ \E inc \in BOOLEAN : SetPulse(inc, d, d, d, 0, 2)

\* loop() called e ms after the last commit
LoopAfter(e) ==
    /\ polls < MaxCalls
    /\ call \notin {"none", "begin"}
    /\ now = ledLastTimeChanged
    /\ now' = U32Add(now, e)
    /\ polls' = polls + 1
    /\ LoopAt(now')

NextDue ==
    \/ Begin
    \/ \E d \in DueDelays : StartDue(d)
    \/ \E e \in DueElapsed : LoopAfter(e)

SpecDue == InitDue /\ [][NextDue]_vars

(***************************************************************************)
(* Pulses over the whole range: one setPulse call right after begin(), on  *)
(* the full range 0..255 or on a short one, then loop() calls and clock    *)
(* advances.                                                               *)
(***************************************************************************)
StartPulseFull(_increase, _minLevel, _maxLevel) ==
    /\ call = "begin"
    /\ SetPulse(_increase, Ms(0), Ms(20), Ms(1000), _minLevel, _maxLevel)

NextPulseFull ==
    \/ Begin
    \/ \E inc \in BOOLEAN, p \in PulsePairs \cup {<<0, 255>>} :
          StartPulseFull(inc, p[1], p[2])
    \/ Loop
    \/ Tick

SpecPulseFull == Init /\ [][NextPulseFull]_vars

(***************************************************************************)
(* Running for ever: one setBlink or setPulse call right after begin(),    *)
(* with finite durations and minLevel < maxLevel, and no set* call after   *)
(* it.  The clock keeps advancing and loop() keeps being called.           *)
(***************************************************************************)
FiniteTimings == {d \in Timings : \A i \in 1..3 : d[i] # FF_LED_WAIT_FOR_EVER}

RisingPairs == {p \in PulsePairs : p[1] < p[2]}

StartLive ==
    /\ call = "begin"
    /\ \E d \in FiniteTimings, p \in RisingPairs :
          \/ \E n \in 1..MaxBlinks : SetBlink(n, d[1], d[2], d[3], p[1], p[2])
          \/ \E inc \in BOOLEAN : SetPulse(inc, d[1], d[2], d[3], p[1], p[2])

NextLive == Begin \/ StartLive \/ Loop \/ Tick

SpecLive ==
    Init /\ [][NextLive]_vars /\ WF_vars(Tick) /\ WF_vars(Loop)

(***************************************************************************)
(* Properties                                                              *)
(***************************************************************************)
\* the indices of commits at which the pulse direction has just been reversed
Reversals == {i \in 2..Len(commits) : commits[i].inc # commits[i-1].inc}

\* commits i..j were made in one sweep direction
SameSweep(i, j) == \A k \in i..j : commits[k].inc = commits[i].inc

\* the k-th commit (from 0) of a blink sequence, by the parameters in force
BlinkPattern(k) ==
    LET p == k % (2 * ledBlinksNeeded + 1)
    IN  IF p = 2 * ledBlinksNeeded
        THEN [level |-> ledMinLevel, delay |-> ledWaitDelay, arg |-> "wait"]
        ELSE IF p % 2 = 0
        THEN [level |-> ledMaxLevel, delay |-> ledOnDelay, arg |-> "on"]
        ELSE [level |-> ledMinLevel, delay |-> ledOffDelay, arg |-> "off"]

Commit(i) ==
    [level |-> commits[i].level, delay |-> commits[i].delay,
     arg |-> commits[i].arg]

\* C1: after setBlink with blinkCount >= 1 and minLevel < maxLevel the
\* commits are blinkCount times (maxLevel, onTime) then (minLevel, offTime),
\* then one (minLevel, waitTime), and so on: the remembered commits are a
\* stretch of that periodic sequence, and start it when none was dropped.
C1_BlinkSequence ==
    (ledMode = "blink" /\ ledBlinksNeeded >= 1 /\ ledMinLevel < ledMaxLevel)
    => \E o \in 0..(2 * ledBlinksNeeded) :
          /\ ~dropped => o = 0
          /\ \A i \in 1..Len(commits) : Commit(i) = BlinkPattern(o + i - 1)

\* a second cycle of two blinks has reached its pause
C1_Witness ==
    /\ ledMode = "blink" /\ ledBlinksNeeded = 2 /\ ledMinLevel < ledMaxLevel
    /\ dropped /\ call = "loopFire"
    /\ commits[Len(commits)].arg = "wait"
    /\ ledOffDelay # ledWaitDelay

\* C3: in Pulse mode with minLevel < maxLevel no level is committed twice
\* within one sweep direction, and a sweep that is over has committed every
\* level of minLevel..maxLevel.
C3_SweepLevelsOnce ==
    (ledMode = "pulse" /\ ledMinLevel < ledMaxLevel)
    => /\ \A i, j \in 1..Len(commits) :
             (i < j /\ SameSweep(i, j))
             => commits[i].level # commits[j].level
       /\ \A a, b \in 1..Len(commits) :
             ( /\ a <= b /\ SameSweep(a, b)
               /\ (a \in Reversals \/ (a = 1 /\ ~dropped))
               /\ (b + 1) \in Reversals )
             => {commits[k].level : k \in a..b} = ledMinLevel..ledMaxLevel

\* an ascent that began at a reversal is over, after an earlier descent
C3_Witness ==
    /\ ledMode = "pulse" /\ ledMinLevel < ledMaxLevel
    /\ dropped /\ call = "loopFire"
    /\ Len(commits) \in Reversals
    /\ commits[Len(commits)].level = ledMaxLevel
    /\ \E a \in Reversals : a < Len(commits) /\ SameSweep(a, Len(commits) - 1)

\* C4: in Fixed mode a call of loop() changes neither the level, the delay,
\* the time of the last change nor the pin, and logs no commit, whatever
\* the clock reads.
C4_FixedLoopIdle ==
    [][ (ledMode = "fixed" /\ call' \in {"loopIdle", "loopFire"})
        => ( /\ call' = "loopIdle"
             /\ UNCHANGED <<ledFields, pinWrite, commits, dropped>> ) ]_vars

\* loop() has run in Fixed mode, entered in the middle of a blink sequence,
\* after the clock wrapped past the time of the last change
C4_Witness ==
    /\ ledMode = "fixed" /\ pinIsOutput /\ call = "loopIdle"
    /\ ledBlinksDone > 0
    /\ ledDelay = FF_LED_WAIT_FOR_EVER
    /\ U32Gt(ledLastTimeChanged, now)

\* C2, as the spec's branch table states it: an ascent that turns at
\* maxLevel arms waitTime when increase is true and downTime when it is
\* false, a descent that turns at minLevel arms waitTime when increase is
\* false and upTime when it is true; after setPulse(true, 20, 20, 1000, 0, 10)
\* the 1000 ms pause is armed at level 10.
C2_SpecTable ==
    ledMode = "pulse"
    => /\ \A i \in Reversals :
             /\ commits[i].inc < 0
                => commits[i].arg = (IF ledIncrease THEN "wait" ELSE "off")
             /\ commits[i].inc > 0
                => commits[i].arg = (IF ledIncrease THEN "on" ELSE "wait")
       /\ (ledIncrease /\ ledDelay = Ms(1000)) => ledLevel = 10

\* C2, amended: an ascent that turns at maxLevel arms downTime when increase
\* is true and waitTime when it is false, a descent that turns at minLevel
\* arms waitTime when increase is true and upTime when it is false; after
\* setPulse(true, 20, 20, 1000, 0, 10) the 1000 ms pause is armed at level 0
\* only, after setPulse(false, 20, 20, 1000, 0, 10) at level 10 only.
C2_CodeTable ==
    ledMode = "pulse"
    => /\ \A i \in Reversals :
             /\ commits[i].inc < 0
                => /\ commits[i].level = ledMaxLevel
                   /\ commits[i].arg = (IF ledIncrease THEN "off" ELSE "wait")
                   /\ commits[i].delay =
                         (IF ledIncrease THEN ledOffDelay ELSE ledWaitDelay)
             /\ commits[i].inc > 0
                => /\ commits[i].level = ledMinLevel
                   /\ commits[i].arg = (IF ledIncrease THEN "wait" ELSE "on")
                   /\ commits[i].delay =
                         (IF ledIncrease THEN ledWaitDelay ELSE ledOnDelay)
       /\ ledDelay = Ms(1000) => ledLevel = (IF ledIncrease THEN 0 ELSE 10)

\* after setPulse(true, 20, 20, 1000, 0, 10) the descent has turned at level
\* 0, where the pause has been running for a second; the ascent turned at
\* level 10 less than eight commits before
C2_Witness ==
    /\ ledMode = "pulse" /\ ledIncrease /\ dropped /\ call = "loopIdle"
    /\ ledLevel = 0 /\ ledDelay = Ms(1000)
    /\ U32Sub(now, ledLastTimeChanged) = Ms(1000)
    /\ Len(commits) \in Reversals
    /\ commits[Len(commits)].arg = "wait"

\* C5: with reverted = true a commit of level 255 writes LOW to the pin and
\* a commit of level 0 writes HIGH.
C5_RevertedPolarity ==
    (ledReverted /\ pinWrite.fn # "none")
    => /\ ledLevel = 255
          => (pinWrite.fn = "digitalWrite" /\ DigitalPin(pinWrite.val) = "LOW")
       /\ ledLevel = 0
          => (pinWrite.fn = "digitalWrite" /\ DigitalPin(pinWrite.val) = "HIGH")

\* C6: in Blink mode with minLevel <= maxLevel, blinksDone never exceeds
\* blinksNeeded.
C6_DoneBounded ==
    (ledMode = "blink" /\ ledMinLevel <= ledMaxLevel)
    => ledBlinksDone <= ledBlinksNeeded

\* C7: after setBlink with blinkCount = 0 and minLevel < maxLevel every
\* commit is (minLevel, waitTime), the level is minLevel and blinksDone
\* stays 0.
C7_ZeroBlinks ==
    (ledMode = "blink" /\ ledBlinksNeeded = 0 /\ ledMinLevel < ledMaxLevel)
    => /\ ledLevel = ledMinLevel
       /\ ledDelay = ledWaitDelay
       /\ ledBlinksDone = 0
       /\ \A i \in 1..Len(commits) :
             Commit(i) = [level |-> ledMinLevel, delay |-> ledWaitDelay,
                          arg |-> "wait"]

\* loop() has re-armed waitTime more than LogLen times
C7_Witness ==
    /\ ledMode = "blink" /\ ledBlinksNeeded = 0 /\ ledMinLevel < ledMaxLevel
    /\ dropped /\ call = "loopFire"
    /\ ledMaxLevel = 255 /\ ledMinLevel = 253

\* C8: in Blink and Pulse mode with minLevel <= maxLevel the level is
\* within minLevel..maxLevel.
C8_LevelInRange ==
    (ledMode \in {"blink", "pulse"} /\ ledMinLevel <= ledMaxLevel)
    => (ledMinLevel <= ledLevel /\ ledLevel <= ledMaxLevel)

\* a pulse is strictly between its bounds, on its way down, after a reversal
C8_Witness ==
    /\ ledMode = "pulse" /\ call = "loopFire"
    /\ ledMinLevel < ledLevel /\ ledLevel < ledMaxLevel
    /\ ledPulseIncrement < 0 /\ Reversals # {}

\* C10: in Pulse mode with minLevel < maxLevel, of two successive reversals
\* exactly one arms waitTime and the other arms upTime or downTime, two
\* reversals at the same extreme arm the same member, and no commit other
\* than a reversal arms waitTime.
C10_OnePausePerCycle ==
    (ledMode = "pulse" /\ ledMinLevel < ledMaxLevel)
    => /\ \A i, j \in Reversals :
             IF commits[i].level = commits[j].level
             THEN commits[i].arg = commits[j].arg
             ELSE \/ (commits[i].arg = "wait" /\ commits[j].arg \in {"on", "off"})
                  \/ (commits[j].arg = "wait" /\ commits[i].arg \in {"on", "off"})
       /\ \A i \in Reversals : commits[i].level \in {ledMinLevel, ledMaxLevel}
       /\ \A i \in 1..Len(commits) :
             (i \notin Reversals /\ (i > 1 \/ ~dropped))
             => commits[i].arg \in {"on", "off"}

\* three reversals are remembered: two at one extreme, one at the other
C10_Witness ==
    /\ ledMode = "pulse" /\ ledMinLevel < ledMaxLevel /\ call = "loopFire"
    /\ Cardinality(Reversals) = 3
    /\ \E i, j \in Reversals : i < j /\ commits[i].level = commits[j].level
    /\ \E i, j \in Reversals : commits[i].level # commits[j].level

\* C9, as the spec's scenario states it: after setBlink(3, 100, 50, 500)
\* every write of level 0 is followed by a write of level 255, so that a
\* cycle is three writes of 255 and three writes of 0 and the seventh write
\* begins the next cycle.
C9_SpecCycle ==
    ledMode = "blink"
    => /\ \A i \in 1..(Len(commits) - 1) :
             commits[i].level = 0 => commits[i+1].level = 255
       /\ (~dropped /\ Len(commits) >= 7) => commits[7].level = 255

\* one cycle of setBlink(3, 100, 50, 500): <<level, delay in ms>>
Blink3Cycle ==
    << <<255, 100>>, <<0, 50>>, <<255, 100>>, <<0, 50>>, <<255, 100>>,
       <<0, 50>>, <<0, 500>> >>

\* C9, amended: after setBlink(3, 100, 50, 500) and with loop() polled every
\* 10 ms from the time of that call, a cycle is seven writes: 255 and 0
\* three times, each 0 arming 50 ms, and then a fourth write of 0 that arms
\* 500 ms; every write is made at the first poll after its predecessor's
\* delay has run out, 10 ms late: each on-phase lasts 110 ms, the first two
\* off-phases 60 ms and the third 60 + 510 ms.
C9_CodeCycle ==
    /\ [](ledMode = "blink"
          => \E o \in 0..6 :
                /\ ~dropped => o = 0
                /\ \A i \in 1..Len(commits) :
                      <<commits[i].level, commits[i].delay>> =
                         <<Blink3Cycle[((o + i - 1) % 7) + 1][1],
                           Ms(Blink3Cycle[((o + i - 1) % 7) + 1][2])>>)
    /\ [][ (ledMode = "blink" /\ call' = "loopFire")
           => U32Sub(now', ledLastTimeChanged) = U32Add(ledDelay, Ms(10)) ]_vars

\* the first on-write of a later cycle has just been made, 510 ms after the
\* write that armed the pause, by a clock that has wrapped
C9_Witness ==
    /\ ledMode = "blink" /\ call = "loopFire" /\ dropped
    /\ ledLevel = 255
    /\ commits[Len(commits) - 1].delay = Ms(500)
    /\ commits[Len(commits) - 2].delay = Ms(50)
    /\ commits[Len(commits) - 2].level = 0
    /\ polls > 200 /\ U32Gt(Ms(10 * polls), now)

\* C11: the hardware write of setFixed(L) does not depend on the parameters
\* of earlier setBlink/setPulse calls: right after setFixed(L) the pin is
\* driven as it is by the same call on an object whose bounds were never
\* changed (ledMinLevel = 0, ledMaxLevel = 255), so that any two runs with
\* the same L and polarity drive the pin alike.
C11_FixedWriteIndependent ==
    LET Driven(w) == IF w.fn = "digitalWrite"
                     THEN <<w.fn, DigitalPin(w.val)>>
                     ELSE <<w.fn, w.val>>
    IN  call = "setFixed"
        => Driven(pinWrite) = Driven(HardwareWrite(ledLevel, ledReverted, 0, 255))

\* C12: a call of loop() made when (now - lastChangeTime) <= delay changes
\* none of the object's fields and writes nothing to the pin, and a call of
\* loop() takes a transition only when the elapsed time is strictly greater
\* than the armed delay.
C12_NotDueNoOp ==
    [][ call' \in {"loopIdle", "loopFire"}
        => /\ ~U32Gt(U32Sub(now', ledLastTimeChanged), ledDelay)
              => /\ call' = "loopIdle"
                 /\ UNCHANGED <<ledFields, pinWrite, commits, dropped>>
           /\ call' = "loopFire"
              => U32Gt(U32Sub(now', ledLastTimeChanged), ledDelay) ]_vars

\* loop() has been called in Pulse mode when the elapsed time was equal to
\* the armed delay, and did nothing
C12_Witness ==
    /\ ledMode = "pulse" /\ call = "loopIdle"
    /\ U32Sub(now, ledLastTimeChanged) = ledDelay
    /\ Len(commits) > 1

\* C13: immediately after a set* call the state is the initial one of the
\* new effect, whatever the previous effect was: setPulse gives mode Pulse
\* with (pulseIncrement, level, delay) = (+1, minLevel, upTime) if increase
\* and (-1, maxLevel, downTime) if not; setBlink gives mode Blink,
\* blinksDone = 0 and (level, delay) = (maxLevel, onTime) if blinkCount > 0,
\* (minLevel, waitTime) if not; in each case lastChangeTime = now and exactly
\* one hardware write, of the new level, has been made.
C13_SetStartsAfresh ==
    LET OneWriteOfLevel ==
            /\ ledLastTimeChanged = now
            /\ Len(commits) = 1 /\ ~dropped
            /\ commits[1].level = ledLevel /\ commits[1].delay = ledDelay
            /\ pinWrite.fn = (IF ledLevel \in {0, 255} THEN "digitalWrite"
                                                       ELSE "analogWrite")
            /\ pinWrite.fn = "analogWrite"
               => pinWrite.val = (IF ledReverted THEN 255 - ledLevel ELSE ledLevel)
    IN  /\ call = "setPulse"
           => /\ ledMode = "pulse"
              /\ ledIncrease
                 => (ledPulseIncrement = 1 /\ ledLevel = ledMinLevel
                     /\ ledDelay = ledOnDelay)
              /\ ~ledIncrease
                 => (ledPulseIncrement = -1 /\ ledLevel = ledMaxLevel
                     /\ ledDelay = ledOffDelay)
              /\ OneWriteOfLevel
        /\ call = "setBlink"
           => /\ ledMode = "blink" /\ ledBlinksDone = 0
              /\ ledBlinksNeeded > 0
                 => (ledLevel = ledMaxLevel /\ ledDelay = ledOnDelay)
              /\ ledBlinksNeeded = 0
                 => (ledLevel = ledMinLevel /\ ledDelay = ledWaitDelay)
              /\ OneWriteOfLevel

\* setBlink has just been called, some time after the start, on an object
\* that was pulsing downwards
C13_Witness ==
    /\ call = "setBlink" /\ ledBlinksNeeded > 0
    /\ ledPulseIncrement = -1
    /\ now # Ms(0)
    /\ ledLevel = 2

\* C15: setFixed is idempotent: after each call of setFixed(L) the mode is
\* Fixed, the level L and the delay FF_LED_WAIT_FOR_EVER, and a call of
\* setFixed(L) on an object already fixed at L (by the previous setFixed(L),
\* with any clock advances and loop() calls since) writes the same value to
\* the pin as the write before it.
C15_SetFixedIdempotent ==
    /\ [](call = "setFixed"
          => /\ ledMode = "fixed"
             /\ ledDelay = FF_LED_WAIT_FOR_EVER
             /\ commits = <<[level |-> ledLevel, delay |-> ledDelay,
                             arg |-> "forever", inc |-> ledPulseIncrement]>>)
    /\ [][ (ledMode = "fixed" /\ pinIsOutput /\ call' = "setFixed"
            /\ ledLevel' = ledLevel)
           => /\ pinWrite' = pinWrite
              /\ ledMode' = ledMode /\ ledDelay' = ledDelay
              /\ commits' = commits ]_vars

\* setFixed(255) has been called after the clock advanced, with bounds left
\* by an earlier effect; the state is the one a repeated setFixed(255) leaves
C15_Witness ==
    /\ call = "setFixed" /\ ledLevel = 255
    /\ ledMaxLevel = 2
    /\ now # Ms(0)

\* C16: a call of loop() takes at most one transition, however long ago the
\* armed delay ran out: a loop() step that commits makes exactly one commit
\* and one pin write, and the phase it enters is timed from the time of that
\* call (lastChangeTime = now), not from the time the previous phase should
\* have ended; every other loop() step commits nothing.
C16_OneTransitionPerLoop ==
    [][ call' \in {"loopIdle", "loopFire"}
        => IF call' = "loopFire"
           THEN /\ ledLastTimeChanged' = now'
                /\ commits' = Logged(commits,
                                     [level |-> ledLevel', delay |-> ledDelay',
                                      arg |-> commits'[Len(commits')].arg,
                                      inc |-> ledPulseIncrement'])
                /\ pinWrite' = HardwareWrite(ledLevel', ledReverted,
                                             ledMinLevel, ledMaxLevel)
           ELSE UNCHANGED <<ledLastTimeChanged, commits, pinWrite>> ]_vars

\* after setBlink with onTime = 0, loop() found the transition due a clock
\* step later, when many whole blink cycles would have been over: one commit
\* was made, the off-phase, timed from that call
C16_Witness ==
    /\ ledMode = "blink" /\ call = "loopFire"
    /\ ledOnDelay = Ms(0) /\ ledOffDelay = Ms(20) /\ ledWaitDelay = Ms(1000)
    /\ Len(commits) = 2 /\ commits[2].arg = "off"
    /\ ledLastTimeChanged = now
    /\ U32Gt(now, Ms(100000))

\* C19: with reverted = false a commit of level 0 writes the binary value
\* LOW to the pin and a commit of level 255 writes a binary HIGH; a commit of
\* a level strictly between 0 and 255 makes a graduated write of that level,
\* of 255 - level when reverted.
C19_WriteOfLevel ==
    pinWrite.fn # "none"
    => /\ (~ledReverted /\ ledLevel = 0)
          => (pinWrite.fn = "digitalWrite" /\ DigitalPin(pinWrite.val) = "LOW")
       /\ (~ledReverted /\ ledLevel = 255)
          => (pinWrite.fn = "digitalWrite" /\ DigitalPin(pinWrite.val) = "HIGH")
       /\ ledLevel \in 1..254
          => /\ pinWrite.fn = "analogWrite"
             /\ pinWrite.val = (IF ledReverted THEN 255 - ledLevel ELSE ledLevel)

\* C14: the due test of loop() is right across the wrap of the 32-bit
\* millisecond clock: for a commit made at any clock value with an armed
\* delay d < 2^31, a loop() call made e ms later takes the transition if
\* d < e < 2^31 and does not if e <= d, also when the clock has wrapped in
\* between and now is numerically smaller than lastChangeTime.
C14_DueAcrossWrap ==
    [][ \A e \in DueElapsed :
           ( /\ call' \in {"loopIdle", "loopFire"}
             /\ now = ledLastTimeChanged
             /\ now' = U32Add(now, e)
             /\ U32Gt(<<Half \div 2, 0>>, e)
             /\ U32Gt(<<Half \div 2, 0>>, ledDelay) )
           => (call' = "loopFire" <=> U32Gt(e, ledDelay)) ]_vars

\* the first loop() call came 21 ms after a commit made 15 ms before the
\* wrap with a delay of 20 ms, at clock value 6, and took the transition
C14_Witness ==
    /\ call = "loopFire" /\ polls = 1
    /\ Len(commits) = 2 /\ commits[1].delay = Ms(20)
    /\ now = Ms(6)
    /\ ledLastTimeChanged = now

\* C17 as stated: when the armed delay is 0 in Blink or Pulse mode, the next
\* call of loop() takes the transition, whenever it is made, the very
\* millisecond of the commit included.
C17_ZeroDelayAnyCall ==
    [][ (ledMode \in {"blink", "pulse"} /\ ledDelay = Ms(0)
         /\ call' \in {"loopIdle", "loopFire"})
        => call' = "loopFire" ]_vars

\* C17: when the armed delay is 0 in Blink or Pulse mode, a call of loop()
\* takes the transition if and only if the clock value has changed since the
\* commit: a call made 1 ms later does, a call made within the millisecond
\* of the commit does nothing.
C17_ZeroDelayNextMs ==
    [][ (ledMode \in {"blink", "pulse"} /\ ledDelay = Ms(0)
         /\ call' \in {"loopIdle", "loopFire"})
        => /\ call' = "loopFire" <=> now' # ledLastTimeChanged
           /\ now' = ledLastTimeChanged
              => UNCHANGED <<ledFields, pinWrite, commits, dropped>> ]_vars

\* a phase of 0 ms was armed at clock value 0 and the first loop() call,
\* made 1 ms later, took the transition
C17_Witness ==
    /\ call = "loopFire" /\ polls = 1
    /\ Len(commits) = 2 /\ commits[1].delay = Ms(0)
    /\ now = Ms(1)

\* C18: in Pulse mode with minLevel <= maxLevel any two consecutively
\* committed levels differ by at most 1, the bounds 0 and 255 included: the
\* level never wraps from 255 to 0 on an ascending step nor from 0 to 255 on
\* a descending one.
C18_StepAtMostOne ==
    (ledMode = "pulse" /\ ledMinLevel <= ledMaxLevel)
    => \A i \in 2..Len(commits) :
          /\ commits[i].level - commits[i-1].level \in {-1, 0, 1}
          /\ commits[i].level \in 0..255

\* a pulse over 0..255 has come down to 0, turned there and gone up again
\* to 1
C18_Witness ==
    /\ ledMode = "pulse" /\ ledMinLevel = 0 /\ ledMaxLevel = 255
    /\ Len(commits) >= 4
    /\ commits[Len(commits) - 3].level = 1
    /\ commits[Len(commits) - 2].level = 0
    /\ commits[Len(commits) - 1].level = 0
    /\ commits[Len(commits)].level = 1
    /\ ledPulseIncrement = 1

\* C20 as stated: once Blink or Pulse mode is running, with the clock
\* advancing and loop() called again and again, a transition is always
\* eventually taken and the level is maxLevel infinitely often and minLevel
\* infinitely often.
C20_NeverStuck ==
    /\ []<>(ledMode = "fixed" \/ call = "loopFire")
    /\ []<>(ledMode = "fixed" \/ ledLevel = ledMaxLevel)
    /\ []<>(ledMode = "fixed" \/ ledLevel = ledMinLevel)

\* C20: the same, provided that loop() is called at least once while each
\* transition is due (strong fairness of the loop() call that finds the
\* delay run out): being called again and again is not enough, since the
\* elapsed time computed modulo 2^32 falls back under the delay when the
\* clock has gone round.
C20_NeverStuckIfPolledWhenDue ==
    SF_vars(Loop /\ call' = "loopFire")
    => /\ []<>(ledMode = "fixed" \/ call = "loopFire")
       /\ []<>(ledMode = "fixed" \/ ledLevel = ledMaxLevel)
       /\ []<>(ledMode = "fixed" \/ ledLevel = ledMinLevel)

\* a blink sequence has gone through its pause and lit the LED again
C20_Witness ==
    /\ ledMode = "blink" /\ call = "loopFire"
    /\ ledLevel = ledMaxLevel
    /\ Len(commits) >= 2
    /\ commits[Len(commits) - 1].arg = "wait"

=============================================================================
